---- MODULE Spec2Model ----
(***************************************************************************)
(* A model of run.py, the Streamlit dashboard of world countries: the     *)
(* memoized loaders, the Country Details view, the Compare Countries view *)
(* and the per-indicator chart dispatch.                                  *)
(*                                                                         *)
(* Cell values are records [k, v]:                                        *)
(*   k = "none"  Python None                                              *)
(*   k = "nan"   float NaN (an absent value of a numeric column)          *)
(*   k = "na"    pandas.NA                                                *)
(*   k = "inf"   float infinity                                           *)
(*   k = "num"   a float, v its value in tenths (1100 is 110.0)           *)
(*   k = "text"  the string f"{n:,}" of the integer v                     *)
(*   k = "dash"  the string "—"                                           *)
(*   k = "str"   any other string, v the parts it was joined from         *)
(***************************************************************************)
EXTENDS Integers, Sequences, FiniteSets, TLC

VARIABLES
    \* the latest-value computations of both views on one indicators frame
    wb, tpc, col_vals, display_col, card_metrics,
    \* the chart loops of both views on one list of indicator ids
    indicators_list, cpc, details_charts, ordered, compare_charts,
    \* the store and the external service
    countries_db, indicators_db, api, geo_file,
    \* the st.cache_data caches, and the last call of a memoized loader
    cache_data, cache_wb, cache_rc, cache_geo, last_call,
    \* one run of the script: the widgets' values, the script's variables,
    \* what was rendered, and where the run is or how it ended
    selectbox, multiselect, pc, failed_at, rendered,
    df, geo_data, country, wb_data,
    selected_names, selected_cca3_list, restcountries, wb_by_country,
    latest_table, display_table

tableVars == <<wb, tpc, col_vals, display_col, card_metrics>>
chartVars == <<indicators_list, cpc, details_charts, ordered, compare_charts>>

storeVars == <<countries_db, indicators_db, api, geo_file>>
cacheVars == <<cache_data, cache_wb, cache_rc, cache_geo, last_call>>

widgetVars == <<selectbox, multiselect>>
detailsVars == <<country, wb_data>>
compareVars == <<selected_names, selected_cca3_list, restcountries, wb_by_country,
                 latest_table, display_table>>
pageVars == <<selectbox, multiselect, pc, failed_at, rendered, df, geo_data,
              country, wb_data, selected_names, selected_cca3_list, restcountries,
              wb_by_country, latest_table, display_table>>

vars == <<wb, tpc, col_vals, display_col, card_metrics,
          indicators_list, cpc, details_charts, ordered, compare_charts,
          countries_db, indicators_db, api, geo_file,
          cache_data, cache_wb, cache_rc, cache_geo, last_call,
          selectbox, multiselect, pc, failed_at, rendered, df, geo_data,
          country, wb_data, selected_names, selected_cca3_list, restcountries,
          wb_by_country, latest_table, display_table>>

-----------------------------------------------------------------------------
(* Values *)

None == [k |-> "none", v |-> 0]
NaN == [k |-> "nan", v |-> 0]
NA == [k |-> "na", v |-> 0]
Inf == [k |-> "inf", v |-> 0]
Dash == [k |-> "dash", v |-> 0]
Num(whole) == [k |-> "num", v |-> whole * 10]
Tenths(t) == [k |-> "num", v |-> t]
Text(n) == [k |-> "text", v |-> n]

\* pd.isna(x): None, NaN and pandas.NA are missing
IsNa(x) == x.k \in {"none", "nan", "na"}

\* int(x) of a float: truncation toward zero
IntOf(x) == IF x.v >= 0 THEN x.v \div 10 ELSE -((-x.v) \div 10)

\* int(x) raises for NaN (ValueError), infinity (OverflowError), None (TypeError)
\* and for the strings of the table that are no integer literal ("—", names
\* joined by commas, digits grouped by commas)
IntRaises(x) == x.k \in {"none", "nan", "na", "inf", "dash", "text", "str"}

RECURSIVE SeqProduct(_)
\* the sequences that take their i-th element from the i-th set of sets
SeqProduct(sets) ==
    IF sets = <<>> THEN {<<>>}
    ELSE {<<h>> \o t : h \in Head(sets), t \in SeqProduct(Tail(sets))}

-----------------------------------------------------------------------------
(* Module-level tables *)

card_indicators ==
    <<"gdp_current_usd", "gdp_per_capita", "gdp_growth_percent", "inflation_percent",
      "unemployment_percent", "population_total", "imports_usd", "exports_usd">>

-----------------------------------------------------------------------------
(* Indicator frames: what load_worldbank_from_db returns.  cols is FALSE   *)
(* for the column-less pd.DataFrame() of the except branch.               *)

Frame(rows) == [cols |-> TRUE, rows |-> rows]
NoFrame == [cols |-> FALSE, rows |-> <<>>]
FrameEmpty(f) == f.rows = <<>>

\* wb[wb['indicator'] == ind]
RowsOf(f, ind) == {i \in 1..Len(f.rows) : f.rows[i].indicator = ind}

\* .sort_values('year').iloc[-1]: a row of the greatest year (the default sort
\* is not stable: were two rows of equal year, either could come last)
LastRows(f, ind) ==
    {i \in RowsOf(f, ind) : \A j \in RowsOf(f, ind) : f.rows[j].year <= f.rows[i].year}

\* the values val can take for one indicator in the Compare Countries table
LatestVals(f, ind) ==
    IF ~FrameEmpty(f) /\ f.cols
    THEN IF RowsOf(f, ind) # {}
         THEN {f.rows[i].value : i \in LastRows(f, ind)}
         ELSE {None}
    ELSE {None}

\* the indicator part of col_vals, one entry per card indicator
IndicatorCols(f) ==
    SeqProduct([i \in 1..Len(card_indicators) |-> LatestVals(f, card_indicators[i])])

\* a formatter that fills missing values with zero
fmt_cell_fill_zero(x) ==
    IF IsNa(x) THEN Text(0)
    ELSE IF IntRaises(x) THEN x
    ELSE Text(IntOf(x))

\* fmt_cell of the Compare Countries table
fmt_cell(x) ==
    IF IsNa(x) THEN Dash
    ELSE IF IntRaises(x) THEN x
    ELSE Text(IntOf(x))

\* the values the Country Details cards read: None when the indicator has no row
CardVals(f, ind) ==
    IF RowsOf(f, ind) # {}
    THEN {f.rows[i].value : i \in LastRows(f, ind)}
    ELSE {None}

CardCols(f) ==
    SeqProduct([i \in 1..Len(card_indicators) |-> CardVals(f, card_indicators[i])])

\* st.metric(value=f"{int(value):,}") for every value that is not None
CardsRaise(vals) == \E i \in 1..Len(vals) : vals[i] # None /\ IntRaises(vals[i])

CardsShown(vals) ==
    [i \in 1..Len(vals) |-> IF vals[i] = None THEN None ELSE Text(IntOf(vals[i]))]

-----------------------------------------------------------------------------
(* The latest-value computations on every small frame *)

MaxRows == 3
RowIndicators == {"gdp_current_usd", "population_total"}
RowYears == 2020..2022
RowValues == {NaN, Num(100), Num(110)}
Rows == [indicator : RowIndicators, year : RowYears, value : RowValues]
\* the store holds one row per country, indicator and year, in any order
RowSeqs ==
    {s \in UNION {[1..n -> Rows] : n \in 0..MaxRows} :
        \A i, j \in 1..Len(s) :
            i # j => s[i].indicator # s[j].indicator \/ s[i].year # s[j].year}

TableInput ==
    /\ wb \in {Frame(r) : r \in RowSeqs} \cup {NoFrame}
    /\ tpc = "loaded"
    /\ col_vals = <<>>
    /\ display_col = <<>>
    /\ card_metrics = <<>>

\* Compare Countries: the indicator cells of one country's column
CompareColumn ==
    /\ tpc = "loaded"
    /\ \E c \in IndicatorCols(wb) : col_vals' = c
    /\ tpc' = "column"
    /\ UNCHANGED <<wb, display_col, card_metrics, chartVars, storeVars, cacheVars, pageVars>>

\* Compare Countries: display_table = latest_table.map(fmt_cell)
FormatColumn ==
    /\ tpc = "column"
    /\ display_col' = [i \in 1..Len(col_vals) |-> fmt_cell(col_vals[i])]
    /\ tpc' = "formatted"
    /\ UNCHANGED <<wb, col_vals, card_metrics, chartVars, storeVars, cacheVars, pageVars>>

\* Country Details: the headline cards
DetailsCards ==
    /\ tpc = "loaded"
    /\ IF FrameEmpty(wb)
       THEN /\ tpc' = "cards_skipped"
            /\ UNCHANGED card_metrics
       ELSE \E c \in CardCols(wb) :
              IF CardsRaise(c)
              THEN /\ tpc' = "cards_raised"
                   /\ UNCHANGED card_metrics
              ELSE /\ tpc' = "cards"
                   /\ card_metrics' = CardsShown(c)
    /\ UNCHANGED <<wb, col_vals, display_col, chartVars, storeVars, cacheVars, pageVars>>

TableIdle ==
    /\ wb = NoFrame
    /\ tpc = "off"
    /\ col_vals = <<>>
    /\ display_col = <<>>
    /\ card_metrics = <<>>

-----------------------------------------------------------------------------
(* Indicator dispatch: title_map and the chart type chosen per indicator  *)

title_map_keys ==
    {"gdp_current_usd", "gdp_per_capita", "gdp_growth_percent", "inflation_percent",
     "unemployment_percent", "population_total", "imports_usd", "exports_usd",
     "exports_pct_gdp", "imports_pct_gdp", "current_account_pct_gdp",
     "capital_formation_pct_gdp", "govt_expenditure_pct_gdp"}

\* ids the store may hold that title_map does not know
OtherIndicators == {"co2_emissions", "life_expectancy", "GNI_per_capita"}

IndicatorIds == title_map_keys \cup OtherIndicators

\* the characters of the ids title_map does not know
IdChars ==
    [id \in OtherIndicators |->
        CASE id = "co2_emissions" ->
               <<"c", "o", "2", "_", "e", "m", "i", "s", "s", "i", "o", "n", "s">>
          [] id = "life_expectancy" ->
               <<"l", "i", "f", "e", "_", "e", "x", "p", "e", "c", "t", "a", "n", "c", "y">>
          [] OTHER ->
               <<"G", "N", "I", "_", "p", "e", "r", "_", "c", "a", "p", "i", "t", "a">>]

LowerCase ==
    <<"a", "b", "c", "d", "e", "f", "g", "h", "i", "j", "k", "l", "m", "n",
      "o", "p", "q", "r", "s", "t", "u", "v", "w", "x", "y", "z">>
UpperCase ==
    <<"A", "B", "C", "D", "E", "F", "G", "H", "I", "J", "K", "L", "M", "N",
      "O", "P", "Q", "R", "S", "T", "U", "V", "W", "X", "Y", "Z">>

\* str.upper and str.lower of one character
Upper(c) ==
    IF \E i \in 1..Len(LowerCase) : LowerCase[i] = c
    THEN UpperCase[CHOOSE i \in 1..Len(LowerCase) : LowerCase[i] = c]
    ELSE c

Lower(c) ==
    IF \E i \in 1..Len(UpperCase) : UpperCase[i] = c
    THEN LowerCase[CHOOSE i \in 1..Len(UpperCase) : UpperCase[i] = c]
    ELSE c

\* str.replace(old, new) for single characters
StrReplace(chars, old, new) ==
    [i \in 1..Len(chars) |-> IF chars[i] = old THEN new ELSE chars[i]]

\* a capitalize that leaves the text as it is
CapitalizeNot(chars) == chars

\* str.capitalize(): the first character in upper case, the others in lower
Capitalize(chars) ==
    [i \in 1..Len(chars) |-> IF i = 1 THEN Upper(chars[i]) ELSE Lower(chars[i])]

\* title_map.get(indicator, indicator.replace('_', ' ').capitalize()); the
\* same expression in both views
Title(indicator) ==
    IF indicator \in title_map_keys
    THEN [catalog |-> TRUE, text |-> <<indicator>>]
    ELSE [catalog |-> FALSE,
          text |-> Capitalize(StrReplace(IdChars[indicator], "_", " "))]

\* the if/elif chain of the Country Details chart loop
DetailsChartStyle(indicator) ==
    IF indicator \in {"gdp_growth_percent", "inflation_percent", "unemployment_percent"}
    THEN "bar"
    ELSE IF indicator \in {"population_total"}
    THEN "area"
    ELSE IF indicator \in {"exports_pct_gdp", "imports_pct_gdp"}
    THEN "scatter"
    ELSE "line"

\* the if/elif chain of the Compare Countries chart loop
CompareChartStyle(ind) ==
    IF ind \in {"gdp_growth_percent", "inflation_percent", "unemployment_percent"}
    THEN "bar"
    ELSE IF ind \in {"population_total"}
    THEN "area"
    ELSE IF ind \in {"gdp_current_usd", "imports_usd", "exports_usd"}
    THEN "bar"
    ELSE "line"

InSeq(x, s) == \E i \in 1..Len(s) : s[i] = x

RECURSIVE Filter(_, _)
\* [i for i in s if i in keep], order kept
Filter(s, keep) ==
    IF s = <<>> THEN <<>>
    ELSE IF Head(s) \in keep THEN <<Head(s)>> \o Filter(Tail(s), keep)
    ELSE Filter(Tail(s), keep)

SeqSet(s) == {s[i] : i \in 1..Len(s)}

\* an order that is the encounter order
OrderedAsEncountered(list) == list

\* ordered = [i for i in card_indicators if i in indicators_list]
\*         + [i for i in indicators_list if i not in card_indicators]
Ordered(list) ==
    Filter(card_indicators, SeqSet(list))
        \o Filter(list, SeqSet(list) \ SeqSet(card_indicators))

MaxIndicators == 3

\* Series.unique(): every id once, in encounter order
UniqueLists ==
    {s \in UNION {[1..n -> IndicatorIds] : n \in 0..MaxIndicators} :
        \A i, j \in 1..Len(s) : i # j => s[i] # s[j]}

ChartInput ==
    /\ indicators_list \in UniqueLists
    /\ cpc = "details"
    /\ details_charts = <<>>
    /\ ordered = <<>>
    /\ compare_charts = <<>>

ChartIdle ==
    /\ indicators_list = <<>>
    /\ cpc = "off"
    /\ details_charts = <<>>
    /\ ordered = <<>>
    /\ compare_charts = <<>>

\* Country Details: one turn of the loop over indicators_list
DetailsChart ==
    /\ cpc = "details"
    /\ Len(details_charts) < Len(indicators_list)
    /\ LET indicator == indicators_list[Len(details_charts) + 1]
       IN details_charts' = Append(details_charts,
              [id |-> indicator, title |-> Title(indicator),
               style |-> DetailsChartStyle(indicator)])
    /\ UNCHANGED <<indicators_list, cpc, ordered, compare_charts,
                   tableVars, storeVars, cacheVars, pageVars>>

\* Compare Countries: the order in which the indicators are charted
CompareOrder ==
    /\ cpc = "details"
    /\ Len(details_charts) = Len(indicators_list)
    /\ ordered' = Ordered(indicators_list)
    /\ cpc' = "compare"
    /\ UNCHANGED <<indicators_list, details_charts, compare_charts,
                   tableVars, storeVars, cacheVars, pageVars>>

\* Compare Countries: one turn of the loop over ordered
CompareChart ==
    /\ cpc = "compare"
    /\ Len(compare_charts) < Len(ordered)
    /\ LET ind == ordered[Len(compare_charts) + 1]
       IN compare_charts' = Append(compare_charts,
              [id |-> ind, title |-> Title(ind), style |-> CompareChartStyle(ind)])
    /\ UNCHANGED <<indicators_list, cpc, details_charts, ordered,
                   tableVars, storeVars, cacheVars, pageVars>>

-----------------------------------------------------------------------------
(* The store, the external service and the memoized loaders               *)

\* Series.astype(float): a number stays, None and NaN become NaN.  The cast
\* raises TypeError on pandas.NA, which float() does not accept.
AsFloatRaises(x) == x.k = "na"

ToFloat(x) == IF x.k = "num" THEN x ELSE NaN

\* Series.replace({0: pd.NA}): a 0 of the column becomes pandas.NA, and the
\* column an object column
ReplaceZero(x) == IF x.k = "num" /\ x.v = 0 THEN NA ELSE x

\* population / area on float64: NaN propagates, x/0 is inf, 0/0 is NaN
DivFloat(p, a) ==
    IF p.k # "num" \/ a.k # "num" THEN NaN
    ELSE IF a.v = 0 THEN (IF p.v = 0 THEN NaN ELSE Inf)
    ELSE Tenths((p.v * 10) \div a.v)

\* what load_data adds to one row of the countries table
LoadRow(r) ==
    LET area == ToFloat(ReplaceZero(r.area))
        population == ToFloat(r.population)
    IN [name_common |-> r.name_common, cca3 |-> r.cca3, cca2 |-> r.cca2,
        area |-> area, population |-> population,
        density |-> DivFloat(population, area)]

\* load_data raises when the cast of the area column meets pandas.NA
load_data_raises(table) ==
    \E i \in 1..Len(table) : AsFloatRaises(ReplaceZero(table[i].area))

\* the body of load_data: the frame of all rows of the countries table
load_data_body(table) == [i \in 1..Len(table) |-> LoadRow(table[i])]

\* the body of load_worldbank_from_db: the rows of one country code, or the
\* column-less frame when the query raises
load_worldbank_body(db, cca2) ==
    IF db.up
    THEN Frame(IF cca2 \in DOMAIN db.rows THEN db.rows[cca2] ELSE <<>>)
    ELSE NoFrame

\* Country documents.  present holds the keys the document carries, empty
\* those of them whose value is empty ([] or {}).
DocKeys == {"name", "flags", "borders", "timezones", "languages", "tld", "currencies", "area",
            "continents", "capital", "capitalInfo"}

NoDoc == [isNone |-> TRUE, present |-> {}, empty |-> {}, borders |-> <<>>,
          capital |-> <<>>, area |-> None]

Doc(present, borders, capital, area) ==
    [isNone |-> FALSE, present |-> present, empty |-> {}, borders |-> borders,
     capital |-> capital, area |-> area]

\* the same document with empty values under the keys
WithEmpty(doc, keys) == [doc EXCEPT !.empty = keys]

\* responses of the service: an HTTP response with a status and a JSON body,
\* or an exception of requests.get (timeout, connection error)
Response(status, body) == [k |-> "response", status |-> status, body |-> body]
TimedOut == [k |-> "exception", status |-> 0, body |-> <<>>]

\* a body that does not test status_code
get_country_body_any_status(resp) ==
    IF resp.k = "response" /\ Len(resp.body) >= 1 THEN resp.body[1] ELSE NoDoc

\* the body of get_country_data_by_cca3
get_country_body(resp) ==
    IF resp.k = "response" /\ resp.status = 200 /\ Len(resp.body) >= 1
    THEN resp.body[1]
    ELSE NoDoc

\* the body of load_geojson: the collection, or the column-less empty
\* GeoDataFrame when the file cannot be read
load_geojson_body(file) ==
    IF file.readable THEN [cols |-> TRUE, iso_a3 |-> file.iso_a3]
    ELSE [cols |-> FALSE, iso_a3 |-> {}]

\* st.cache_data: an entry per argument tuple, filled by the first call and
\* never invalidated
Miss == [hit |-> FALSE, val |-> 0, src |-> 0]
Hit(val, src) == [hit |-> TRUE, val |-> val, src |-> src]

\* a loader that runs its body on every call
MemoReturnRecomputed(entry, fresh) == fresh

\* what a memoized call returns, given the entry and the body's fresh result
MemoReturn(entry, fresh) == IF entry.hit THEN entry.val ELSE fresh

\* the entry after the call; src remembers what the body read when it ran
MemoEntry(entry, fresh, src) == IF entry.hit THEN entry ELSE Hit(fresh, src)

-----------------------------------------------------------------------------
(* The data of the store: ten countries, in the order of the table        *)

Country(name, cca3, cca2, area, population) ==
    [name_common |-> name, cca3 |-> cca3, cca2 |-> cca2,
     area |-> area, population |-> population]

CountriesTable ==
    <<Country("Netherlands", "NLD", "NL", Num(41), Num(17)),
      Country("Japan", "JPN", "JP", Num(377), Num(125)),
      Country("Germany", "DEU", "DE", Num(357), Num(83)),
      Country("Brazil", "BRA", "BR", Num(8515), Num(212)),
      Country("United Kingdom", "GBR", "GB", Num(242), Num(67)),
      Country("Kenya", "KEN", "KE", Num(580), Num(53)),
      Country("Canada", "CAN", "CA", Num(9984), Num(38)),
      Country("India", "IND", "IN", Num(3287), Num(1380)),
      Country("France", "FRA", "FR", Num(551), Num(67)),
      Country("Antarctica", "ATA", "AQ", None, Num(0))>>

\* the same table after an update of the store
CountriesTableUpdated ==
    [CountriesTable EXCEPT ![1] = Country("Netherlands", "NLD", "NL", Num(41), Num(18))]

\* the same table with a country whose area is stored as 0
CountriesTableZeroArea ==
    [CountriesTable EXCEPT ![10] = Country("Antarctica", "ATA", "AQ", Num(0), Num(0))]

\* str comparison of the names: their alphabetical order
NameOrder ==
    <<"Antarctica", "Brazil", "Canada", "France", "Germany", "India", "Japan",
      "Kenya", "Netherlands", "United Kingdom">>

Obs(indicator, year, value) == [indicator |-> indicator, year |-> year, value |-> value]

\* the indicators table, by country code, in the row order of the table
IndicatorRows ==
    [c \in {"NL", "DE", "JP", "KE", "GB"} |->
        CASE c = "NL" -> <<Obs("gdp_current_usd", 2021, Num(110)),
                           Obs("gdp_current_usd", 2020, Num(100)),
                           Obs("population_total", 2021, Num(17)),
                           Obs("exports_pct_gdp", 2021, Tenths(825))>>
          [] c = "DE" -> <<Obs("gdp_current_usd", 2020, Num(100)),
                           Obs("gdp_current_usd", 2021, Num(110)),
                           Obs("gdp_current_usd", 2022, NaN),
                           Obs("inflation_percent", 2022, Tenths(69))>>
          [] c = "JP" -> <<Obs("population_total", 2022, Num(125)),
                           Obs("co2_emissions", 2020, Num(1000))>>
          [] c = "GB" -> <<Obs("gdp_growth_percent", 2022, Tenths(43))>>
          [] OTHER -> <<>>]

\* the observation a store update adds for a country: that of the next year
NewObs(n) == Obs("gdp_current_usd", 2022 + n, Num(120))

RestDocs ==
    [c \in {"NLD", "JPN", "DEU", "BRA", "GBR", "KEN", "CAN", "IND", "FRA", "ATA"} |->
        CASE c = "NLD" -> Doc(DocKeys, <<"BEL", "DEU">>, <<"Amsterdam">>, Num(41850))
          [] c = "JPN" -> Doc(DocKeys, <<>>, <<"Tokyo">>, Num(377930))
          [] c = "DEU" -> Doc(DocKeys, <<"FRA", "NLD">>, <<"Berlin">>, Num(357114))
          [] c = "ATA" -> Doc({"name", "flags", "area", "continents", "tld"}, <<>>, <<>>,
                                Num(14000000))
          [] c = "KEN" -> Doc(DocKeys \ {"capitalInfo"}, <<"TZA">>, <<"Nairobi">>, Num(580367))
          [] c = "FRA" -> WithEmpty(Doc(DocKeys, <<"BEL", "DEU">>, <<"Paris">>, Num(551695)),
                                    {"timezones", "languages", "tld", "currencies",
                                     "continents"})
          [] OTHER -> Doc(DocKeys, <<"XXX">>, <<"Capital">>, Num(1000))]

-----------------------------------------------------------------------------
(* Calls of the memoized loaders, and updates of what they read           *)

NoCall == [fn |-> "none", arg |-> "", raised |-> FALSE, ret |-> 0, fresh |-> 0, src |-> 0]

Called(fn, arg, entry, fresh, src) ==
    [fn |-> fn, arg |-> arg, raised |-> FALSE, ret |-> MemoReturn(entry, fresh),
     fresh |-> fresh, src |-> MemoEntry(entry, fresh, src).src]

\* a call whose body raised: nothing is returned and nothing is cached
Raised(fn, arg, src) ==
    [fn |-> fn, arg |-> arg, raised |-> TRUE, ret |-> <<>>, fresh |-> <<>>, src |-> src]

CallLoadData ==
    /\ IF ~cache_data.hit /\ load_data_raises(countries_db)
       THEN /\ last_call' = Raised("load_data", "", countries_db)
            /\ UNCHANGED cache_data
       ELSE LET fresh == load_data_body(countries_db)
            IN /\ cache_data' = MemoEntry(cache_data, fresh, countries_db)
               /\ last_call' = Called("load_data", "", cache_data, fresh, countries_db)
    /\ UNCHANGED <<storeVars, cache_wb, cache_rc, cache_geo, tableVars, chartVars, pageVars>>

CacheCca2 == {"NL", "DE"}
CacheCca3 == {"NLD"}

CallLoadWorldbank ==
    \E cca2 \in CacheCca2 :
        /\ LET fresh == load_worldbank_body(indicators_db, cca2)
           IN /\ cache_wb' = [cache_wb EXCEPT
                                 ![cca2] = MemoEntry(cache_wb[cca2], fresh, indicators_db)]
              /\ last_call' = Called("load_worldbank_from_db", cca2, cache_wb[cca2],
                                     fresh, indicators_db)
        /\ UNCHANGED <<storeVars, cache_data, cache_rc, cache_geo,
                       tableVars, chartVars, pageVars>>

CallGetCountry ==
    \E cca3 \in CacheCca3 :
        /\ LET fresh == get_country_body(api[cca3])
           IN /\ cache_rc' = [cache_rc EXCEPT
                                 ![cca3] = MemoEntry(cache_rc[cca3], fresh, api[cca3])]
              /\ last_call' = Called("get_country_data_by_cca3", cca3, cache_rc[cca3],
                                     fresh, api[cca3])
        /\ UNCHANGED <<storeVars, cache_data, cache_wb, cache_geo,
                       tableVars, chartVars, pageVars>>

\* the countries table is rewritten
UpdateCountries ==
    /\ countries_db' = IF countries_db = CountriesTable
                       THEN CountriesTableUpdated ELSE CountriesTable
    /\ UNCHANGED <<indicators_db, api, geo_file, cacheVars, tableVars, chartVars, pageVars>>

MaxNewRows == 1

\* a new observation is appended to the indicators table
UpdateIndicators ==
    \E cca2 \in CacheCca2 :
        /\ indicators_db.added[cca2] < MaxNewRows
        /\ LET n == indicators_db.added[cca2] + 1
           IN indicators_db' =
                [indicators_db EXCEPT !.added[cca2] = n,
                                      !.rows[cca2] = Append(@, NewObs(n))]
        /\ UNCHANGED <<countries_db, api, geo_file, cacheVars,
                       tableVars, chartVars, pageVars>>

\* the service starts or stops answering for a code
ServiceChange ==
    \E cca3 \in CacheCca3 :
        /\ \E r \in {Response(200, <<RestDocs[cca3]>>), Response(404, <<>>), TimedOut} :
              /\ r # api[cca3]
              /\ api' = [api EXCEPT ![cca3] = r]
        /\ UNCHANGED <<countries_db, indicators_db, geo_file, cacheVars,
                       tableVars, chartVars, pageVars>>

AllCca3 == {CountriesTable[i].cca3 : i \in 1..Len(CountriesTable)}
AllCca2 == {CountriesTable[i].cca2 : i \in 1..Len(CountriesTable)}

IndicatorsDb(up) ==
    [up |-> up,
     added |-> [c \in AllCca2 |-> 0],
     rows |-> [c \in AllCca2 |-> IF c \in DOMAIN IndicatorRows THEN IndicatorRows[c] ELSE <<>>]]

GeoFile(readable, iso_a3) == [readable |-> readable, iso_a3 |-> iso_a3]

CachesEmpty ==
    /\ cache_data = Miss
    /\ cache_wb = [c \in AllCca2 |-> Miss]
    /\ cache_rc = [c \in AllCca3 |-> Miss]
    /\ cache_geo = Miss
    /\ last_call = NoCall

StoreInput ==
    /\ countries_db = CountriesTable
    /\ indicators_db = IndicatorsDb(TRUE)
    /\ api = [c \in AllCca3 |-> Response(200, <<RestDocs[c]>>)]
    /\ geo_file = GeoFile(TRUE, AllCca3)

MaxCountryRows == 2
RawAreas == {None, Num(0), Num(2), Num(4)}
RawPopulations == {None, Num(0), Num(6), Num(9)}

\* every small countries table: NULL, zero and positive areas and populations
RawTables ==
    UNION {{[i \in 1..n |-> [CountriesTable[i] EXCEPT !.area = f[i][1],
                                                      !.population = f[i][2]]] :
              f \in [1..n -> RawAreas \X RawPopulations]} : n \in 1..MaxCountryRows}

LoadInput ==
    /\ countries_db \in RawTables
    /\ indicators_db = IndicatorsDb(TRUE)
    /\ api = [c \in AllCca3 |-> Response(200, <<RestDocs[c]>>)]
    /\ geo_file = GeoFile(TRUE, AllCca3)

-----------------------------------------------------------------------------
(* One run of the script, top to bottom.  An uncaught exception and        *)
(* st.stop() both end the run: nothing below that line is rendered.        *)

MAX_COUNTRIES == 8

EmptyDoc == Doc({}, <<>>, <<>>, None)

\* not country: None and the empty dict are falsy
Falsy(doc) == doc.isNone \/ doc.present = {}

\* get_country_data_by_cca3(cca3) or {}
OrEmpty(doc) == IF Falsy(doc) THEN EmptyDoc ELSE doc

\* a test of the key alone: key in rc
KeyPresent(doc, key) == key \in doc.present

\* rc.get(key) is truthy: the key is there and its value is not empty or zero
Truthy(doc, key) ==
    /\ key \in doc.present
    /\ key \notin doc.empty
    /\ key = "borders" => doc.borders # <<>>
    /\ key = "capital" => doc.capital # <<>>
    /\ key = "area" => doc.area.k = "num" /\ doc.area.v # 0

Str(parts) == [k |-> "str", v |-> parts]

RECURSIVE RowsFrom(_, _)
\* the rows of the names NameOrder[k], NameOrder[k+1], ... in that order
RowsFrom(frame, k) ==
    IF k > Len(NameOrder) THEN <<>>
    ELSE SelectSeq(frame, LAMBDA r : r.name_common = NameOrder[k]) \o RowsFrom(frame, k + 1)

\* df.sort_values(by='name_common')
SortByName(frame) == RowsFrom(frame, 1)

country_names(frame) ==
    LET sorted == SortByName(frame)
    IN [i \in 1..Len(frame) |-> sorted[i].name_common]

\* dict(zip(names, codes)): a later row of the same name replaces an earlier one
country_map(frame, name) ==
    LET sorted == SortByName(frame)
        last == CHOOSE i \in 1..Len(sorted) :
                    /\ sorted[i].name_common = name
                    /\ \A j \in 1..Len(sorted) : sorted[j].name_common = name => j <= i
    IN sorted[last].cca3

\* df[df['cca3'] == cca3][...].values[0]
RowOfCca3(frame, cca3) ==
    frame[CHOOSE i \in 1..Len(frame) :
            /\ frame[i].cca3 = cca3
            /\ \A j \in 1..Len(frame) : frame[j].cca3 = cca3 => i <= j]

\* country_options[country_options['name_common'] == name]['cca3'].values[0]
DetailsCca3(frame, name) ==
    LET sorted == SortByName(frame)
        first == CHOOSE i \in 1..Len(sorted) :
                    /\ sorted[i].name_common = name
                    /\ \A j \in 1..Len(sorted) : sorted[j].name_common = name => i <= j
    IN sorted[first].cca3

RECURSIVE Unique(_)
\* Series.unique(): the first occurrences, in order
Unique(s) ==
    IF s = <<>> THEN <<>>
    ELSE LET init == Unique(SubSeq(s, 1, Len(s) - 1))
         IN IF InSeq(s[Len(s)], init) THEN init ELSE Append(init, s[Len(s)])

FrameIndicators(f) == Unique([i \in 1..Len(f.rows) |-> f.rows[i].indicator])

\* a cut that keeps every name
TruncateNothing(names) == names

\* selected_names[:MAX_COUNTRIES]
Truncate(names) ==
    IF Len(names) > MAX_COUNTRIES THEN SubSeq(names, 1, MAX_COUNTRIES) ELSE names

\* a warning already at MAX_COUNTRIES names
TruncationWarnedAtCap(names) == Len(names) >= MAX_COUNTRIES

\* the warning of the truncation is shown
TruncationWarned(names) == Len(names) > MAX_COUNTRIES

\* the keys of the eight cells, in the order of extra_rows
AttributeKeys ==
    <<"borders", "timezones", "languages", "tld", "currencies", "area", "continents",
      "capital">>

\* the eight cells below the indicators of one column of latest_table
AttributeCells(frame, cca3, rc) ==
    <<IF Truthy(rc, "borders") THEN Str(rc.borders) ELSE Dash,
      IF Truthy(rc, "timezones") THEN Str(<<"timezones">>) ELSE Dash,
      IF Truthy(rc, "languages") THEN Str(<<"languages">>) ELSE Dash,
      IF Truthy(rc, "tld") THEN Str(<<"tld">>) ELSE Dash,
      IF Truthy(rc, "currencies") THEN Str(<<"currencies">>) ELSE Dash,
      IF Truthy(rc, "area") THEN Text(IntOf(rc.area))
      ELSE IF RowOfCca3(frame, cca3).area # NaN
           THEN Text(IntOf(RowOfCca3(frame, cca3).area)) ELSE Dash,
      IF Truthy(rc, "continents") THEN Str(<<"continents">>) ELSE Dash,
      IF Truthy(rc, "capital") THEN Str(rc.capital) ELSE Dash>>

\* an assignment that puts the column to the left of the others
PutColumnFirst(table, name, cells) == <<[name |-> name, cells |-> cells]>> \o table

\* latest_table[name] = col_vals: a new column goes to the right, a column of
\* the same name is replaced where it stands
PutColumn(table, name, cells) ==
    IF \E i \in 1..Len(table) : table[i].name = name
    THEN [i \in 1..Len(table) |->
            IF table[i].name = name THEN [name |-> name, cells |-> cells] ELSE table[i]]
    ELSE Append(table, [name |-> name, cells |-> cells])

RECURSIVE BuildTable(_, _, _, _, _)
\* the loop over selected_cca3_list that fills latest_table, its first n turns
BuildTable(frame, list, rcs, inds, n) ==
    IF n = 0 THEN <<>>
    ELSE LET before == BuildTable(frame, list, rcs, inds, n - 1)
             name == RowOfCca3(frame, list[n]).name_common
             cells == inds[n] \o AttributeCells(frame, list[n], rcs[list[n]])
         IN PutColumn(before, name, cells)

FormatTable(table) ==
    [i \in 1..Len(table) |->
        [name |-> table[i].name,
         cells |-> [j \in 1..Len(table[i].cells) |-> fmt_cell(table[i].cells[j])]]]

ChartsOf(ids, view) ==
    [i \in 1..Len(ids) |->
        [id |-> ids[i], title |-> Title(ids[i]),
         style |-> IF view = "details" THEN DetailsChartStyle(ids[i])
                   ELSE CompareChartStyle(ids[i])]]

RECURSIVE Concat(_)
Concat(ss) == IF ss = <<>> THEN <<>> ELSE Head(ss) \o Concat(Tail(ss))

Ended(how, at) ==
    /\ pc' = how
    /\ failed_at' = at

\* lines 69-70: the static datasets
PageStart ==
    /\ pc = "start"
    /\ IF ~cache_data.hit /\ load_data_raises(countries_db)
       THEN /\ Ended("raised", "load_data")
            /\ UNCHANGED <<df, geo_data, cache_data, cache_geo>>
       ELSE /\ LET fresh == load_data_body(countries_db)
               IN /\ df' = MemoReturn(cache_data, fresh)
                  /\ cache_data' = MemoEntry(cache_data, fresh, countries_db)
            /\ LET fresh == load_geojson_body(geo_file)
               IN /\ geo_data' = MemoReturn(cache_geo, fresh)
                  /\ cache_geo' = MemoEntry(cache_geo, fresh, geo_file)
            /\ pc' = "dashboard"
            /\ UNCHANGED failed_at
    /\ UNCHANGED <<widgetVars, rendered, detailsVars, compareVars,
                   cache_wb, cache_rc, last_call, storeVars, tableVars, chartVars>>

\* the Dashboard tab
PageDashboard ==
    /\ pc = "dashboard"
    /\ rendered' = rendered \cup {"dashboard"}
    /\ pc' = "details"
    /\ UNCHANGED <<widgetVars, failed_at, df, geo_data, detailsVars, compareVars,
                   cacheVars, storeVars, tableVars, chartVars>>

\* Country Details: the selected country is looked up; not found stops the run
PageDetailsLookup ==
    /\ pc = "details"
    /\ InSeq(selectbox, country_names(df))
    /\ LET selected_cca3 == DetailsCca3(df, selectbox)
           fresh == get_country_body(api[selected_cca3])
           doc == MemoReturn(cache_rc[selected_cca3], fresh)
       IN /\ cache_rc' = [cache_rc EXCEPT ![selected_cca3] =
                             MemoEntry(cache_rc[selected_cca3], fresh, api[selected_cca3])]
          /\ country' = doc
          /\ IF Falsy(doc)
             THEN /\ rendered' = rendered \cup {"details_not_found"}
                  /\ Ended("stopped", "")
             ELSE /\ pc' = "details_cards"
                  /\ UNCHANGED <<rendered, failed_at>>
    /\ UNCHANGED <<widgetVars, df, geo_data, wb_data, compareVars,
                   cache_data, cache_wb, cache_geo, last_call,
                   storeVars, tableVars, chartVars>>

\* Country Details: the indicators of the country and the headline cards
PageDetailsCards ==
    /\ pc = "details_cards"
    /\ LET selected_cca2 == RowOfCca3(df, DetailsCca3(df, selectbox)).cca2
           fresh == load_worldbank_body(indicators_db, selected_cca2)
           frame == MemoReturn(cache_wb[selected_cca2], fresh)
       IN /\ cache_wb' = [cache_wb EXCEPT ![selected_cca2] =
                             MemoEntry(cache_wb[selected_cca2], fresh, indicators_db)]
          /\ wb_data' = frame
          /\ IF FrameEmpty(frame)
             THEN /\ pc' = "details_body"
                  /\ UNCHANGED <<rendered, failed_at>>
             ELSE \E c \in CardCols(frame) :
                    IF CardsRaise(c)
                    THEN /\ Ended("raised", "details_cards")
                         /\ UNCHANGED rendered
                    ELSE /\ rendered' = rendered \cup {"details_cards"}
                         /\ pc' = "details_body"
                         /\ UNCHANGED failed_at
    /\ UNCHANGED <<widgetVars, df, geo_data, country, compareVars,
                   cache_data, cache_rc, cache_geo, last_call,
                   storeVars, tableVars, chartVars>>

\* Country Details: the header, the GDP chart (inside try/except) and the
\* chart of every indicator
PageDetailsBody ==
    /\ pc = "details_body"
    /\ IF {"name", "flags"} \subseteq country.present
       THEN /\ rendered' = rendered \cup {"details_header"}
                \cup (IF ~wb_data.cols THEN {"details_gdp_error"}
                      ELSE IF RowsOf(wb_data, "gdp_current_usd") # {} THEN {"details_gdp"}
                      ELSE {"details_gdp_no_data"})
                \cup (IF FrameEmpty(wb_data) THEN {"details_no_data"} ELSE {"details_charts"})
            /\ details_charts' = ChartsOf(FrameIndicators(wb_data), "details")
            /\ pc' = "details_map"
            /\ UNCHANGED failed_at
       ELSE /\ Ended("raised", "details_header")
            /\ UNCHANGED <<rendered, details_charts>>
    /\ UNCHANGED <<widgetVars, df, geo_data, detailsVars, compareVars, cacheVars,
                   storeVars, tableVars, indicators_list, cpc, ordered, compare_charts>>

\* Country Details: the map of the country
PageDetailsMap ==
    /\ pc = "details_map"
    /\ IF ~geo_data.cols
       THEN \* geo_data["iso_a3"] on the column-less frame: KeyError
            /\ Ended("raised", "details_map")
            /\ UNCHANGED rendered
       ELSE IF DetailsCca3(df, selectbox) \notin geo_data.iso_a3
       THEN /\ rendered' = rendered \cup {"details_geo_warning"}
            /\ pc' = "compare"
            /\ UNCHANGED failed_at
       ELSE IF Truthy(country, "capitalInfo")
       THEN /\ rendered' = rendered \cup {"details_map"}
            /\ pc' = "compare"
            /\ UNCHANGED failed_at
       ELSE \* the marker of the approximate capital reads centroid, a name
            \* that is never bound: NameError
            /\ Ended("raised", "details_map")
            /\ UNCHANGED rendered
    /\ UNCHANGED <<widgetVars, df, geo_data, detailsVars, compareVars, cacheVars,
                   storeVars, tableVars, chartVars>>

\* Compare Countries: the selection, cut to MAX_COUNTRIES
PageCompareSelect ==
    /\ pc = "compare"
    /\ IF multiselect = <<>>
       THEN /\ rendered' = rendered \cup {"select_warning"}
            /\ Ended("stopped", "")
            /\ UNCHANGED <<selected_names, selected_cca3_list>>
       ELSE /\ rendered' = rendered \cup {"compare_selection"}
                \cup (IF TruncationWarned(multiselect) THEN {"truncation_warning"} ELSE {})
            /\ LET kept == Truncate(multiselect)
               IN /\ selected_names' = kept
                  /\ selected_cca3_list' = [i \in 1..Len(kept) |-> country_map(df, kept[i])]
            /\ pc' = "compare_load"
            /\ UNCHANGED failed_at
    /\ UNCHANGED <<widgetVars, df, geo_data, detailsVars, restcountries, wb_by_country,
                   latest_table, display_table, cacheVars, storeVars, tableVars, chartVars>>

\* Compare Countries: the document and the indicators of every selected country
PageCompareLoad ==
    /\ pc = "compare_load"
    /\ LET codes == SeqSet(selected_cca3_list)
           cca2of == [c \in codes |-> RowOfCca3(df, c).cca2]
           codes2 == {cca2of[c] : c \in codes}
       IN /\ restcountries' =
                [c \in codes |-> OrEmpty(MemoReturn(cache_rc[c], get_country_body(api[c])))]
          /\ cache_rc' =
                [c \in DOMAIN cache_rc |->
                    IF c \in codes
                    THEN MemoEntry(cache_rc[c], get_country_body(api[c]), api[c])
                    ELSE cache_rc[c]]
          /\ wb_by_country' =
                [c \in codes |->
                    MemoReturn(cache_wb[cca2of[c]],
                               load_worldbank_body(indicators_db, cca2of[c]))]
          /\ cache_wb' =
                [c \in DOMAIN cache_wb |->
                    IF c \in codes2
                    THEN MemoEntry(cache_wb[c], load_worldbank_body(indicators_db, c),
                                   indicators_db)
                    ELSE cache_wb[c]]
    /\ rendered' = rendered \cup {"compare_flags"}
    /\ pc' = "compare_table"
    /\ UNCHANGED <<widgetVars, failed_at, df, geo_data, detailsVars, selected_names,
                   selected_cca3_list, latest_table, display_table,
                   cache_data, cache_geo, last_call, storeVars, tableVars, chartVars>>

\* Compare Countries: latest_table, a column per selected country, and its
\* formatted copy
PageCompareTable ==
    /\ pc = "compare_table"
    /\ \E inds \in SeqProduct([i \in 1..Len(selected_cca3_list) |->
                                  IndicatorCols(wb_by_country[selected_cca3_list[i]])]) :
          LET table == BuildTable(df, selected_cca3_list, restcountries, inds,
                                  Len(selected_cca3_list))
          IN /\ latest_table' = table
             /\ display_table' = FormatTable(table)
    /\ rendered' = rendered \cup {"compare_table"}
    /\ pc' = "compare_charts"
    /\ UNCHANGED <<widgetVars, failed_at, df, geo_data, detailsVars, selected_names,
                   selected_cca3_list, restcountries, wb_by_country,
                   cacheVars, storeVars, tableVars, chartVars>>

\* Compare Countries: the chart of every indicator of the selected countries
\* and the GDP chart
PageCompareCharts ==
    /\ pc = "compare_charts"
    /\ LET combined == Concat([i \in 1..Len(selected_cca3_list) |->
                                  wb_by_country[selected_cca3_list[i]].rows])
           ids == Unique([i \in 1..Len(combined) |-> combined[i].indicator])
       IN /\ indicators_list' = ids
          /\ ordered' = Ordered(ids)
          /\ compare_charts' = ChartsOf(Ordered(ids), "compare")
          /\ rendered' = rendered
                \cup (IF combined = <<>> THEN {"compare_no_data"} ELSE {"compare_charts"})
                \cup (IF \E i \in 1..Len(combined) : combined[i].indicator = "gdp_current_usd"
                      THEN {"compare_gdp"} ELSE {"compare_gdp_no_data"})
    /\ pc' = "compare_map"
    /\ UNCHANGED <<widgetVars, failed_at, df, geo_data, detailsVars, compareVars,
                   cacheVars, storeVars, tableVars, cpc, details_charts>>

\* Compare Countries: the map of the selected countries
PageCompareMap ==
    /\ pc = "compare_map"
    /\ IF ~geo_data.cols
       THEN \* geo_data['iso_a3'] on the column-less frame: KeyError
            /\ Ended("raised", "compare_map")
            /\ UNCHANGED rendered
       ELSE /\ rendered' = rendered
                \cup (IF geo_data.iso_a3 \cap SeqSet(selected_cca3_list) = {}
                      THEN {"compare_geo_warning"} ELSE {"compare_map"})
            /\ Ended("done", "")
    /\ UNCHANGED <<widgetVars, df, geo_data, detailsVars, compareVars, cacheVars,
                   storeVars, tableVars, chartVars>>

\* the selections of the multiselect: runs of an order of the names, cyclic
Window(order, start, n) == [i \in 1..n |-> order[((start + i - 2) % Len(order)) + 1]]
Reverse(s) == [i \in 1..Len(s) |-> s[Len(s) + 1 - i]]
TableNames == [i \in 1..Len(CountriesTable) |-> CountriesTable[i].name_common]
Selections ==
    {Window(o, st, n) : o \in {Reverse(NameOrder), TableNames},
                        st \in {1, 6}, n \in 0..Len(NameOrder)}
        \cup {<<"Netherlands", "United Kingdom", "Germany">>}

DetailNames == {"Netherlands", "Kenya", "Germany"}

\* what the service does when it does not answer with the document
FailureKinds == {"not_found", "unavailable", "empty_body", "timeout"}

Failure(kind, c) ==
    CASE kind = "not_found" -> Response(404, <<>>)
      [] kind = "unavailable" -> Response(503, <<RestDocs[c]>>)
      [] kind = "empty_body" -> Response(200, <<>>)
      [] OTHER -> TimedOut

ApiEnv(bad, kind) ==
    [c \in AllCca3 |-> IF c \in bad THEN Failure(kind, c)
                       ELSE Response(200, <<RestDocs[c]>>)]

ApiEnvs ==
    {ApiEnv(bad, kind) : bad \in {{}, {"NLD"}, {"JPN", "DEU"}, AllCca3},
                         kind \in FailureKinds}

\* world.geojson: unreadable, or a collection with polygons of some codes
GeoFiles ==
    {GeoFile(FALSE, {}), GeoFile(TRUE, AllCca3), GeoFile(TRUE, AllCca3 \ {"NLD", "JPN"}),
     GeoFile(TRUE, {})}

PageInput ==
    /\ selectbox \in DetailNames
    /\ multiselect \in Selections
    /\ pc = "start"
    /\ failed_at = ""
    /\ rendered = {}
    /\ df = <<>>
    /\ geo_data = load_geojson_body(GeoFile(FALSE, {}))
    /\ country = NoDoc
    /\ wb_data = NoFrame
    /\ selected_names = <<>>
    /\ selected_cca3_list = <<>>
    /\ restcountries = <<>>
    /\ wb_by_country = <<>>
    /\ latest_table = <<>>
    /\ display_table = <<>>

PageStore ==
    /\ countries_db \in {CountriesTable, CountriesTableZeroArea}
    /\ indicators_db \in {IndicatorsDb(TRUE), IndicatorsDb(FALSE)}
    /\ api \in ApiEnvs
    /\ geo_file \in GeoFiles

PageIdle ==
    /\ selectbox = "Netherlands"
    /\ multiselect = <<>>
    /\ pc = "off"
    /\ failed_at = ""
    /\ rendered = {}
    /\ df = <<>>
    /\ geo_data = load_geojson_body(GeoFile(FALSE, {}))
    /\ country = NoDoc
    /\ wb_data = NoFrame
    /\ selected_names = <<>>
    /\ selected_cca3_list = <<>>
    /\ restcountries = <<>>
    /\ wb_by_country = <<>>
    /\ latest_table = <<>>
    /\ display_table = <<>>

-----------------------------------------------------------------------------
(* Specifications *)

\* one run of the script for every selection and environment
Next ==
    \/ PageStart
    \/ PageDashboard
    \/ PageDetailsLookup
    \/ PageDetailsCards
    \/ PageDetailsBody
    \/ PageDetailsMap
    \/ PageCompareSelect
    \/ PageCompareLoad
    \/ PageCompareTable
    \/ PageCompareCharts
    \/ PageCompareMap

Init == PageInput /\ PageStore /\ CachesEmpty /\ TableIdle /\ ChartIdle
Spec == Init /\ [][Next]_vars

\* the latest-value computations of both views, on every small frame
NextTable ==
    \/ CompareColumn
    \/ FormatColumn
    \/ DetailsCards

InitTable == TableInput /\ ChartIdle /\ StoreInput /\ CachesEmpty /\ PageIdle
SpecTable == InitTable /\ [][NextTable]_vars

\* the chart loops of both views, on every short list of indicator ids
NextCharts ==
    \/ DetailsChart
    \/ CompareOrder
    \/ CompareChart

InitCharts == ChartInput /\ TableIdle /\ StoreInput /\ CachesEmpty /\ PageIdle
SpecCharts == InitCharts /\ [][NextCharts]_vars

\* load_data on every small countries table
NextLoad == CallLoadData

InitLoad == LoadInput /\ CachesEmpty /\ TableIdle /\ ChartIdle /\ PageIdle
SpecLoad == InitLoad /\ [][NextLoad]_vars

\* the memoized loaders called in any order while the store is updated
NextCache ==
    \/ CallLoadData
    \/ CallLoadWorldbank
    \/ CallGetCountry
    \/ UpdateCountries
    \/ UpdateIndicators
    \/ ServiceChange

InitCache == StoreInput /\ CachesEmpty /\ TableIdle /\ ChartIdle /\ PageIdle
SpecCache == InitCache /\ [][NextCache]_vars

-----------------------------------------------------------------------------
(* Claims *)

\* the non-absent observations of an indicator, and the latest of them
Present(f, ind) == {i \in RowsOf(f, ind) : f.rows[i].value # NaN}
LatestPresent(f, ind) ==
    {i \in Present(f, ind) : \A j \in Present(f, ind) : f.rows[j].year <= f.rows[i].year}

\* C1: for every card indicator that has a non-absent observation, the value
\* placed in the comparison table is the value of a greatest-year observation
\* among the non-absent ones, whatever the row order.
C1_LatestIsMaxYearNonAbsent ==
    tpc \in {"column", "formatted"} =>
        \A i \in 1..Len(card_indicators) :
            Present(wb, card_indicators[i]) # {} =>
                col_vals[i] \in {wb.rows[r].value : r \in LatestPresent(wb, card_indicators[i])}

\* C9: the formatted cell of a card indicator the country has no observation
\* of is "—", never a number.
C9_NoObservationsIsDash ==
    tpc = "formatted" =>
        \A i \in 1..Len(card_indicators) :
            RowsOf(wb, card_indicators[i]) = {} => display_col[i] = Dash

C9_Witness ==
    /\ tpc = "formatted"
    /\ \E i \in 1..Len(card_indicators) :
          RowsOf(wb, card_indicators[i]) = {} /\ display_col[i] = Dash
    /\ \E j \in 1..Len(card_indicators) : display_col[j] = Text(110)

\* the chart style policy of the specification
PolicyStyle(id) ==
    IF id \in {"gdp_growth_percent", "inflation_percent", "unemployment_percent"}
    THEN "bar"
    ELSE IF id = "population_total" THEN "area"
    ELSE IF id \in {"exports_pct_gdp", "imports_pct_gdp", "current_account_pct_gdp",
                    "capital_formation_pct_gdp", "govt_expenditure_pct_gdp"}
    THEN "scatter"
    ELSE "line"

\* C3: every chart drawn, in either view, has the style the policy gives its
\* indicator id.
C3_ChartStyleFollowsPolicy ==
    /\ \A i \in 1..Len(details_charts) :
          details_charts[i].style = PolicyStyle(details_charts[i].id)
    /\ \A i \in 1..Len(compare_charts) :
          compare_charts[i].style = PolicyStyle(compare_charts[i].id)

\* C4 as stated: every call of a memoized loader returns what a fresh
\* recomputation against the store, as it is at the call, returns.
C4_NeverStale ==
    last_call.fn # "none" => last_call.ret = last_call.fresh

\* C4 amended: every call of a memoized loader returns what its body computed
\* from the store as it was at the first call with those arguments.
C4_ReturnsFirstComputation ==
    /\ (last_call.fn = "load_data" /\ ~last_call.raised) =>
          last_call.ret = load_data_body(last_call.src)
    /\ last_call.fn = "load_worldbank_from_db" =>
          last_call.ret = load_worldbank_body(last_call.src, last_call.arg)
    /\ last_call.fn = "get_country_data_by_cca3" =>
          last_call.ret = get_country_body(last_call.src)

C4_Witness ==
    /\ last_call.fn = "load_worldbank_from_db"
    /\ last_call.src # indicators_db
    /\ last_call.ret # last_call.fresh
    /\ cache_wb["NL"].hit /\ cache_wb["DE"].hit
    /\ cache_wb["NL"].val # cache_wb["DE"].val

\* C8: load_data returns a frame for every countries table, and in it
\* density is population/area (to the precision of the model's floats) when
\* area > 0, and NaN when the area is 0 or absent; it is never infinite.
C8_Density ==
    last_call.fn = "load_data" =>
        /\ ~last_call.raised
        /\ \A i \in 1..Len(last_call.ret) :
              LET raw == last_call.src[i]
                  row == last_call.ret[i]
              IN /\ row.density.k \in {"num", "nan"}
                 /\ (raw.area.k = "num" /\ raw.area.v > 0 /\ raw.population.k = "num") =>
                       /\ row.density.k = "num"
                       /\ raw.area.v * row.density.v <= raw.population.v * 10
                       /\ raw.population.v * 10 < raw.area.v * (row.density.v + 1)
                 /\ (raw.area.k # "num" \/ raw.area.v = 0) => row.density = NaN

RunEnded == pc \in {"done", "stopped", "raised"}

\* C2: a run in which the Country Details view shows its not-found state
\* still renders the Compare Countries view: its selection, its table and its
\* charts.
C2_NotFoundLeavesCompare ==
    (RunEnded /\ "details_not_found" \in rendered) =>
        {"compare_selection", "compare_table", "compare_charts"} \subseteq rendered

Min(a, b) == IF a <= b THEN a ELSE b

SelectedCodes == {country_map(df, multiselect[i]) : i \in 1..Len(multiselect)}

\* C5: the comparison table has as many columns as there are distinct country
\* codes among the selected countries, capped at MAX_COUNTRIES.
C5_ColumnCount ==
    "compare_table" \in rendered =>
        /\ Len(latest_table) = Min(Cardinality(SelectedCodes), MAX_COUNTRIES)
        /\ Len(display_table) = Len(latest_table)

C5_Witness ==
    /\ "compare_table" \in rendered
    /\ Cardinality(SelectedCodes) = MAX_COUNTRIES + 1
    /\ Len(latest_table) = MAX_COUNTRIES

\* C6: a selection of more than MAX_COUNTRIES names is cut to its first
\* MAX_COUNTRIES names, in selection order, and the truncation warning is
\* shown; a selection of at most MAX_COUNTRIES names is kept whole and no
\* truncation warning is shown.
C6_Truncation ==
    "compare_selection" \in rendered =>
        IF Len(multiselect) > MAX_COUNTRIES
        THEN /\ selected_names = SubSeq(multiselect, 1, MAX_COUNTRIES)
             /\ "truncation_warning" \in rendered
        ELSE /\ selected_names = multiselect
             /\ "truncation_warning" \notin rendered

C6_Witness ==
    /\ Len(multiselect) = MAX_COUNTRIES + 2
    /\ "truncation_warning" \in rendered
    /\ "compare_table" \in rendered
    /\ Len(display_table) = MAX_COUNTRIES
    /\ \A i \in 1..MAX_COUNTRIES : display_table[i].name = multiselect[i]

\* C7: when the geometry is not found (the collection is the empty one of a
\* failed load, or it has no polygon of the selected code), the map step of a
\* view does not end in a raised exception.
C7_GeometryNotFoundNeverRaises ==
    /\ failed_at = "details_map" =>
          geo_data.cols /\ DetailsCca3(df, selectbox) \in geo_data.iso_a3
    /\ failed_at = "compare_map" =>
          geo_data.cols /\ geo_data.iso_a3 \cap SeqSet(selected_cca3_list) # {}

LookupAnswered(resp) == resp.k = "response" /\ resp.status = 200 /\ resp.body # <<>>

DetailsLookedUp ==
    pc \notin {"off", "start", "dashboard", "details"} /\ failed_at # "load_data"

\* C10: when the service does not answer the lookup of the Country Details
\* view with status 200 and a document, the lookup returns the absent result
\* and the view shows its not-found state: the run stops there, with no
\* exception raised.
C10_LookupFailureIsNotFound ==
    (DetailsLookedUp /\ ~LookupAnswered(api[DetailsCca3(df, selectbox)])) =>
        /\ country = NoDoc
        /\ "details_not_found" \in rendered
        /\ "details_header" \notin rendered
        /\ pc = "stopped"
        /\ failed_at = ""

C10_Witness ==
    /\ DetailsLookedUp
    /\ api[DetailsCca3(df, selectbox)] = TimedOut
    /\ country = NoDoc
    /\ "details_not_found" \in rendered
    /\ pc = "stopped"

\* the service's document of the code has nothing under the key
MissingOrEmpty(doc, key) ==
    \/ doc.isNone
    \/ key \notin doc.present
    \/ key \in doc.empty
    \/ key = "borders" /\ doc.borders = <<>>
    \/ key = "capital" /\ doc.capital = <<>>

TableBuilt == "compare_table" \in rendered

\* C11: once the comparison table is built it has a column for every selected
\* country, and in it the cell of borders, timezones, languages, tld,
\* currencies, continents and capital is "—" whenever the country's document
\* is absent or has nothing under that key; building the table does not end
\* the run.
C11_MissingAttributeIsDash ==
    /\ pc = "raised" => failed_at # "compare_table"
    /\ TableBuilt =>
          /\ Len(display_table) = Len(selected_cca3_list)
          /\ \A i \in 1..Len(selected_cca3_list) :
                LET doc == get_country_body(api[selected_cca3_list[i]])
                IN \A j \in 1..Len(AttributeKeys) :
                      (AttributeKeys[j] # "area" /\ MissingOrEmpty(doc, AttributeKeys[j])) =>
                          display_table[i].cells[Len(card_indicators) + j] = Dash

\* a table with a country whose document is absent, one whose borders are
\* empty, one whose timezones are empty and one that has borders
C11_Witness ==
    /\ TableBuilt
    /\ \E i \in 1..Len(selected_cca3_list) :
          /\ get_country_body(api[selected_cca3_list[i]]) = NoDoc
          /\ \A j \in {1, 2, 3, 4, 5, 7, 8} :
                display_table[i].cells[Len(card_indicators) + j] = Dash
    /\ \E i \in 1..Len(selected_cca3_list) :
          /\ selected_cca3_list[i] = "JPN"
          /\ get_country_body(api["JPN"]) = RestDocs["JPN"]
          /\ display_table[i].cells[Len(card_indicators) + 1] = Dash
    /\ \E i \in 1..Len(selected_cca3_list) :
          /\ selected_cca3_list[i] = "FRA"
          /\ display_table[i].cells[Len(card_indicators) + 2] = Dash
          /\ display_table[i].cells[Len(card_indicators) + 1] = Str(<<"BEL", "DEU">>)

\* the place of x in the list s
IndexOf(x, s) == CHOOSE i \in 1..Len(s) : s[i] = x

Cards == SeqSet(card_indicators)

\* C12: the order in which the Compare Countries view charts the indicators
\* holds every id of the data once and nothing else; the card indicators come
\* first, in the order of card_indicators, and the other ids follow in the
\* order in which the data holds them.
C12_OrderedCardsFirst ==
    cpc = "compare" =>
        /\ SeqSet(ordered) = SeqSet(indicators_list)
        /\ Len(ordered) = Len(indicators_list)
        /\ \A i, j \in 1..Len(ordered) :
              i < j =>
                /\ ordered[i] # ordered[j]
                /\ ordered[j] \in Cards => ordered[i] \in Cards
                /\ (ordered[i] \in Cards /\ ordered[j] \in Cards) =>
                      IndexOf(ordered[i], card_indicators) < IndexOf(ordered[j], card_indicators)
                /\ (ordered[i] \notin Cards /\ ordered[j] \notin Cards) =>
                      IndexOf(ordered[i], indicators_list) < IndexOf(ordered[j], indicators_list)

\* two cards met in the reverse of their priority, after an id that is no card
C12_Witness ==
    /\ cpc = "compare"
    /\ indicators_list = <<"co2_emissions", "population_total", "gdp_current_usd">>
    /\ ordered = <<"gdp_current_usd", "population_total", "co2_emissions">>

\* C13: a chart of an id that title_map does not know has, in both views, the
\* label made of the id (every underscore a space, the first character in
\* upper case and the others in lower case) and the line style.
C13_UnknownIdFallback ==
    \A charts \in {details_charts, compare_charts} :
        \A i \in 1..Len(charts) :
            charts[i].id \notin title_map_keys =>
                LET c == IdChars[charts[i].id]
                    t == charts[i].title.text
                IN /\ charts[i].style = "line"
                   /\ ~charts[i].title.catalog
                   /\ Len(t) = Len(c)
                   /\ \A k \in 1..Len(c) :
                         t[k] = IF c[k] = "_" THEN " "
                                ELSE IF k = 1 THEN Upper(c[k]) ELSE Lower(c[k])

C13_Witness ==
    /\ \E i \in 1..Len(details_charts) :
          /\ details_charts[i].id = "GNI_per_capita"
          /\ details_charts[i].title.text =
                <<"G", "n", "i", " ", "p", "e", "r", " ", "c", "a", "p", "i", "t", "a">>
          /\ details_charts[i].style = "line"
    /\ \E i \in 1..Len(compare_charts) :
          /\ compare_charts[i].id = "co2_emissions"
          /\ compare_charts[i].title.text =
                <<"C", "o", "2", " ", "e", "m", "i", "s", "s", "i", "o", "n", "s">>
          /\ compare_charts[i].style = "line"

\* C16: an indicator charted by both views has the same chart style in both.
C16_SameStyleInBothViews ==
    \A i \in 1..Len(details_charts) :
        \A j \in 1..Len(compare_charts) :
            details_charts[i].id = compare_charts[j].id =>
                details_charts[i].style = compare_charts[j].style

\* the names the Compare Countries view keeps of the selection
KeptCount == Min(Len(multiselect), MAX_COUNTRIES)

\* C14: in the comparison table the column of a country selected earlier
\* stands left of the column of a country selected later, for the countries
\* kept after the cut to MAX_COUNTRIES.
C14_ColumnsInSelectionOrder ==
    TableBuilt =>
        \A a, b \in 1..KeptCount :
            a < b =>
                \E i, j \in 1..Len(display_table) :
                    /\ i < j
                    /\ display_table[i].name = multiselect[a]
                    /\ latest_table[i].name = multiselect[a]
                    /\ display_table[j].name = multiselect[b]
                    /\ latest_table[j].name = multiselect[b]

\* ten countries selected in an order that is neither that of the names nor
\* that of the codes; the first eight are the columns, in that order
C14_Witness ==
    /\ TableBuilt
    /\ Len(multiselect) = 10
    /\ multiselect[1] = "Kenya" /\ multiselect[2] = "Canada" /\ multiselect[8] = "Germany"
    /\ Len(display_table) = MAX_COUNTRIES
    /\ display_table[1].name = "Kenya"
    /\ display_table[2].name = "Canada"
    /\ display_table[8].name = "Germany"

\* C15: the headline cards of the Country Details view never raise, and a
\* card indicator whose observation of the latest year has an absent value
\* gets no metric.
C15_CardsNeverRaise ==
    /\ tpc # "cards_raised"
    /\ tpc = "cards" =>
          \A i \in 1..Len(card_indicators) :
              (\E r \in LastRows(wb, card_indicators[i]) : IsNa(wb.rows[r].value)) =>
                  card_metrics[i] = None

====
